---- MODULE Spec2Model ----
(***************************************************************************)
(* Lead Management System: the lead store behind routes/leads.js           *)
(* (src/unnamed/part_004) and the Lead schema (src/unnamed/part_003).      *)
(*                                                                         *)
(* Every handler is an async function; the points where it awaits a        *)
(* repository call are the points where other requests interleave.  One    *)
(* action models one such segment of a handler: the repository call it     *)
(* waits for together with the synchronous code that runs on its result.   *)
(***************************************************************************)
EXTENDS Integers, Sequences, FiniteSets, TLC

(***************************************************************************)
(* Bounds                                                                  *)
(***************************************************************************)
\* number of ObjectIds the store hands out in one behaviour
MaxIds == 3
\* number of filter parameters of one list request
MaxFilters == 2
\* getLeads requests the Dashboard issues in one run
MaxRequests == 4

Users == {"u1", "u2"}
Slots == {"r1", "r2"}

\* a malformed :id path parameter (not castable to ObjectId)
BadId == 0
Ids == 1..MaxIds

NoVal == "none"
NoScore == -1

(***************************************************************************)
(* Response messages                                                       *)
(***************************************************************************)
MsgValidation == "Validation failed"
MsgDupCreate == "A lead with this email already exists"
MsgDupOther == "Another lead with this email already exists"
MsgCreated == "Lead created successfully"
MsgUpdated == "Lead updated successfully"
MsgNotFound == "Lead not found"
MsgBadId == "Invalid lead ID format"
MsgCreateFail == "Unable to create lead"
MsgUpdateFail == "Unable to update lead"
MsgDeleteFail == "Unable to delete lead"
MsgFetchFail == "Unable to fetch leads"
MsgFetchLeadFail == "Unable to fetch lead"

(***************************************************************************)
(* Emails.  A raw email is what the client sends; isEmail accepts or       *)
(* rejects it, normalizeEmail and the schema's lowercase setter fold case. *)
(***************************************************************************)
RawEmails == {"a@x.io", "A@x.io", "b@x.io", "not-an-email"}

isEmail(e) == e \in {"a@x.io", "A@x.io", "b@x.io", "c@x.io"}

lowercase(e) ==
  CASE e = "A@x.io" -> "a@x.io"
    [] e = "B@x.io" -> "b@x.io"
    [] OTHER -> e

normalizeEmail(e) == lowercase(e)

StatusValues == {"new", "contacted", "qualified", "lost", "won"}

\* leads, nextId: the leads collection and its ObjectId generator
\* reqs: the write requests being served
\* filters, owner, compiled: one call of buildFilterQuery and its result
\* lst: the list request being served
\* strictQuery: whether the installed Mongoose strips filter paths that are
\*   not in the schema (its default differs between major versions)
VARIABLES leads, nextId, reqs, filters, owner, compiled, lst, strictQuery,
          stamps, dash

vars == <<leads, nextId, reqs, filters, owner, compiled, lst, strictQuery, stamps, dash>>

\* stamps[i] is the created_at of the lead with id i, in milliseconds
storeVars == <<leads, nextId, reqs, stamps>>
filterVars == <<filters, owner, compiled>>
listVars == <<lst, strictQuery>>
\* what no handler of a write request touches
readVars == <<filters, owner, compiled, lst, strictQuery, dash>>

(***************************************************************************)
(* Filter parameters (req.query without page and limit).                   *)
(*                                                                         *)
(* A key is kept as the list of its segments between underscores, which is *)
(* what key.split('_') returns: score_gt is <<"score", "gt">>, status is   *)
(* <<"status">>, created_at_on is <<"created", "at", "on">>.  A value is a *)
(* string or, when the key is repeated in the URL, an array of strings.    *)
(***************************************************************************)
Str(x) == [arr |-> FALSE, items |-> <<x>>]
Arr(xs) == [arr |-> TRUE, items |-> xs]
\* no literal: the clause is a plain object
NoLit == [arr |-> FALSE, items |-> <<>>]

Param(k, v) == [key |-> k, val |-> v]

\* operands of a clause
Num(n) == [t |-> "num", n |-> n, raw |-> NoLit]
NaN == [t |-> "nan", n |-> 0, raw |-> NoLit]
DateAt(n) == [t |-> "date", n |-> n, raw |-> NoLit]
InvalidDate == [t |-> "invalid-date", n |-> 0, raw |-> NoLit]
Raw(v) == [t |-> "raw", n |-> 0, raw |-> v]

\* Number(string): the numeric strings of the model, "" is 0, the rest NaN
NumberOfString(x) ==
  CASE x = "" -> Num(0)
    [] x = "1" -> Num(1)
    [] x = "10" -> Num(10)
    [] x = "50" -> Num(50)
    [] x = "60" -> Num(60)
    [] x = "70" -> Num(70)
    [] OTHER -> NaN

\* Number(value): an array is converted through its string form, so a
\* one-element array is its element and a longer one ("10,60") is NaN
Number(v) ==
  IF ~v.arr THEN NumberOfString(v.items[1])
  ELSE IF Len(v.items) = 0 THEN Num(0)
  ELSE IF Len(v.items) = 1 THEN NumberOfString(v.items[1])
  ELSE NaN

\* new Date(string), in milliseconds since 2024-01-15T00:00:00.000Z
DateOfString(x) ==
  CASE x = "2024-01-15" -> DateAt(0)
    [] x = "2024-01-16" -> DateAt(86400000)
    [] OTHER -> InvalidDate

NewDate(v) ==
  IF ~v.arr THEN DateOfString(v.items[1])
  ELSE IF Len(v.items) = 1 THEN DateOfString(v.items[1])
  ELSE InvalidDate

\* endOfDay.setHours(23, 59, 59, 999), the server running in UTC
SetHoursEndOfDay(d) ==
  IF d.t = "date" THEN DateAt(d.n - (d.n % 86400000) + 86399999) ELSE d

\* a clause of the query: query[field] is a literal (lit) or an object with
\* operator properties (ops); {} is the object without properties
EmptyOps == [o \in {} |-> NaN]
Clause(lit, ops) == [lit |-> lit, ops |-> ops]
EmptyClause == Clause(NoLit, EmptyOps)
Lit(v) == Clause(v, EmptyOps)
Obj(ops) == Clause(NoLit, ops)

\* !query[field] for a field that is set: only the empty string is falsy
Falsy(c) == c.lit = Str("") /\ DOMAIN c.ops = {}

\* a primitive string: assigning a property to it throws in a module
\* (strict mode); objects and arrays accept the property
Primitive(c) == c.lit # NoLit /\ ~c.lit.arr

SetField(q, f, c) == (f :> c) @@ q

\* gt written as the inclusive $gte, lt as $lte
SetProp_Inclusive(q, f, o, x) ==
  SetField(q, f, Clause(q[f].lit,
    ((IF o = "$gt" THEN "$gte" ELSE IF o = "$lt" THEN "$lte" ELSE o) :> x) @@ q[f].ops))

\* query[field].$op = x
SetProp(q, f, o, x) ==
  SetField(q, f, Clause(q[f].lit, (o :> x) @@ q[f].ops))

Compiled(q) == [done |-> TRUE, thrown |-> FALSE, q |-> q]

\* the body of the forEach callback for one key, q the query so far
FilterKey(q, p) ==
  IF Len(p.key) > 1
  THEN LET field == p.key[1]
           operator == p.key[2]
           value == p.val
           q1 == IF field \notin DOMAIN q \/ Falsy(q[field])
                 THEN SetField(q, field, EmptyClause) ELSE q
       IN CASE operator = "equals" -> Compiled(SetField(q1, field, Lit(value)))
            [] operator = "contains" ->
                 Compiled(SetField(q1, field,
                   Obj(("$regex" :> Raw(value)) @@ ("$options" :> Raw(Str("i"))))))
            [] operator = "in" ->
                 Compiled(SetField(q1, field,
                   Obj("$in" :> Raw(IF value.arr THEN value ELSE Arr(value.items)))))
            [] operator = "gt" ->
                 IF Primitive(q1[field]) THEN [Compiled(q1) EXCEPT !.thrown = TRUE]
                 ELSE Compiled(SetProp(q1, field, "$gt", Number(value)))
            [] operator = "lt" ->
                 IF Primitive(q1[field]) THEN [Compiled(q1) EXCEPT !.thrown = TRUE]
                 ELSE Compiled(SetProp(q1, field, "$lt", Number(value)))
            [] operator = "between" ->
                 IF value.arr /\ Len(value.items) = 2
                 THEN IF Primitive(q1[field]) THEN [Compiled(q1) EXCEPT !.thrown = TRUE]
                      ELSE Compiled(SetProp(
                             SetProp(q1, field, "$gte", NumberOfString(value.items[1])),
                             field, "$lte", NumberOfString(value.items[2])))
                 ELSE Compiled(q1)
            [] operator = "before" ->
                 IF Primitive(q1[field]) THEN [Compiled(q1) EXCEPT !.thrown = TRUE]
                 ELSE Compiled(SetProp(q1, field, "$lt", NewDate(value)))
            [] operator = "after" ->
                 IF Primitive(q1[field]) THEN [Compiled(q1) EXCEPT !.thrown = TRUE]
                 ELSE Compiled(SetProp(q1, field, "$gt", NewDate(value)))
            [] operator = "on" ->
                 Compiled(SetField(q1, field,
                   Obj(("$gte" :> NewDate(value)) @@
                       ("$lte" :> SetHoursEndOfDay(NewDate(value))))))
            [] OTHER -> Compiled(q1)
  ELSE IF p.key \in {<<"status">>, <<"source">>, <<"is", "qualified">>}
       THEN Compiled(SetField(q, p.key[1], Lit(p.val)))
       ELSE Compiled(q)

\* Object.keys(filters).forEach(...): the keys in insertion order; a throw
\* ends the loop
RECURSIVE ForEachKey(_, _, _)
ForEachKey(c, fs, i) ==
  IF i > Len(fs) \/ c.thrown THEN c
  ELSE ForEachKey(FilterKey(c.q, fs[i]), fs, i + 1)

\* the query started empty, without the owner clause
buildFilterQuery_NoOwner(fs, userId) ==
  ForEachKey(Compiled(EmptyOps), fs, 1)

buildFilterQuery(fs, userId) ==
  ForEachKey(Compiled("user_id" :> Lit(Str(userId))), fs, 1)

(***************************************************************************)
(* A request slot: a connection on which one request at a time is served.  *)
(***************************************************************************)
\* no document: the data of a response that carries none
NoLead ==
  [id |-> BadId, user_id |-> NoVal, email |-> NoVal, score |-> NoScore, status |-> NoVal]

Idle ==
  [pc |-> "idle", op |-> "none", user |-> NoVal, id |-> BadId,
   email |-> NoVal, buser |-> NoVal, score |-> NoScore, bstatus |-> NoVal,
   code |-> 0, msg |-> NoVal, err |-> "none", via |-> "none",
   errors |-> {}, data |-> NoLead]

\* the request is answered: res.status(code).json({message}) was sent.
\* err is the error the repository threw (if any), via the place that
\* detected a duplicate email.
Answered(r, code, msg, err, via) ==
  [Idle EXCEPT !.pc = "done", !.op = r.op, !.user = r.user, !.email = r.email,
               !.code = code, !.msg = msg, !.err = err, !.via = via]

Accepted(op, u, i, b) ==
  [Idle EXCEPT !.pc = "precheck", !.op = op, !.user = u, !.id = i,
               !.email = normalizeEmail(b.email), !.buser = b.user_id,
               !.score = b.score, !.bstatus = b.status]

\* res.status(400).json({message: 'Validation failed', errors: errors.array()})
Rejected(op, u, errors) ==
  [Answered([Idle EXCEPT !.op = op, !.user = u], 400, MsgValidation, "none", "none")
     EXCEPT !.errors = errors]

(***************************************************************************)
(* leadValidation: the set of fields reported by validationResult(req).    *)
(* No chain of the list carries .optional() except status, score,          *)
(* lead_value, is_qualified and last_activity_at, so an absent email is a  *)
(* violation for POST and for PUT alike.                                   *)
(***************************************************************************)
leadValidation(b) ==
  (IF b.email # NoVal /\ isEmail(b.email) THEN {} ELSE {"email"})
  \cup (IF b.status = NoVal \/ b.status \in StatusValues THEN {} ELSE {"status"})
  \cup (IF b.score = NoScore \/ (b.score >= 0 /\ b.score <= 100) THEN {} ELSE {"score"})

\* the payload does not carry field f (its value is undefined)
Undefined(b, f) ==
  CASE f = "email" -> b.email = NoVal
    [] f = "status" -> b.status = NoVal
    [] f = "score" -> b.score = NoScore

\* validationResult(req).array(): one error per failing field, with its path
\* and whether the value it reports is undefined
validationResult(b) ==
  {[path |-> f, undefined |-> Undefined(b, f)] : f \in leadValidation(b)}

(***************************************************************************)
(* The Lead schema                                                         *)
(***************************************************************************)
\* the document built as {user_id: req.user._id, ...req.body}
NewLead_BodyOwner(r, i) ==
  [id |-> i,
   user_id |-> IF r.buser = NoVal THEN r.user ELSE r.buser,
   email |-> lowercase(r.email),
   score |-> IF r.score = NoScore THEN 0 ELSE r.score,
   status |-> IF r.bstatus = NoVal THEN "new" ELSE r.bstatus]

\* new Lead({...req.body, user_id: req.user._id}) with the schema defaults
NewLead(r, i) ==
  [id |-> i,
   user_id |-> r.user,
   email |-> lowercase(r.email),
   score |-> IF r.score = NoScore THEN 0 ELSE r.score,
   status |-> IF r.bstatus = NoVal THEN "new" ELSE r.bstatus]

\* the update document {...req.body, updated_at: new Date()} applied to l
Patched(l, r) ==
  [id |-> l.id,
   user_id |-> IF r.buser = NoVal THEN l.user_id ELSE r.buser,
   email |-> IF r.email = NoVal THEN l.email ELSE lowercase(r.email),
   score |-> IF r.score = NoScore THEN l.score ELSE r.score,
   status |-> IF r.bstatus = NoVal THEN l.status ELSE r.bstatus]

\* the schema without the unique index
UniqueViolation_NoIndex(e, i) == FALSE

\* email: { unique: true }: the index the store enforces on a write of
\* email e to the document with id i
UniqueViolation(e, i) == \E l \in leads : l.email = e /\ l.id # i

\* the pre-check scoped by the user_id of the payload instead of req.user._id
ExistingLead_BodyOwner(r) ==
  {l \in leads : l.email = r.email /\ l.user_id = r.buser}

\* Lead.findOne({email, user_id}) of POST
ExistingLead(r) ==
  {l \in leads : l.email = r.email /\ l.user_id = r.user}

\* the pre-check with _id: id instead of _id: {$ne: id}
ExistingOther_SelfOnly(r) ==
  {l \in leads : l.email = r.email /\ l.user_id = r.user /\ l.id = r.id}

\* the pre-check without the exclusion of the lead's own id
ExistingOther_NoExclusion(r) ==
  {l \in leads : l.email = r.email /\ l.user_id = r.user}

\* Lead.findOne({email, user_id, _id: {$ne: id}}) of PUT
ExistingOther(r) ==
  {l \in leads : l.email = r.email /\ l.user_id = r.user /\ l.id # r.id}

\* the filter {_id: req.params.id} without the owner
OwnLead_AnyOwner(i, u) == {l \in leads : l.id = i}

\* the filter {_id: req.params.id, user_id: req.user._id}
OwnLead(i, u) == {l \in leads : l.id = i /\ l.user_id = u}

CreatesInFlight == Cardinality({s \in Slots : reqs[s].op = "create" /\ reqs[s].pc # "done"})

TypeOK ==
  /\ nextId \in 1..(MaxIds + 1)
  /\ \A l \in leads : l.id \in Ids /\ l.id < nextId /\ l.user_id \in Users
  /\ \A s \in Slots : reqs[s].pc \in {"idle", "precheck", "write", "done"}
  /\ Len(stamps) = nextId - 1
  /\ dash.issued \in 0..MaxRequests

(***************************************************************************)
(* Lead.find(filterQuery) and Lead.countDocuments(filterQuery): the query  *)
(* is cast against the schema and then evaluated on every document.        *)
(***************************************************************************)
\* the schema paths of a lead that the model carries
NumberPaths == {"score"}
StringPaths == {"status", "email"}
SchemaPaths == {"user_id"} \cup NumberPaths \cup StringPaths

\* casting a clause to the type of its path fails (CastError): a number
\* path given {} , NaN, an invalid date or a non-numeric string; a string
\* path given {}
ClauseCastError(f, c) ==
  \/ /\ f \in NumberPaths
     /\ \/ c.lit = NoLit /\ DOMAIN c.ops = {}
        \/ c.lit # NoLit /\ Number(c.lit).t = "nan"
        \/ \E o \in DOMAIN c.ops : c.ops[o].t \in {"nan", "invalid-date"}
  \/ /\ f \in StringPaths
     /\ c.lit = NoLit /\ DOMAIN c.ops = {}

\* with strictQuery the clauses on paths outside the schema are removed
CastPaths(q, strict) ==
  IF strict THEN DOMAIN q \cap SchemaPaths ELSE DOMAIN q

QueryCastError(q, strict) ==
  \E f \in CastPaths(q, strict) : ClauseCastError(f, q[f])

\* case-insensitive substring test of the $regex operator
RegexMatchI(x, pattern) ==
  CASE pattern \in {"x", "X"} -> x \in {"a@x.io", "b@x.io"}
    [] pattern \in {"a", "A"} -> x = "a@x.io"
    [] pattern \in {"won", "WON"} -> x = "won"
    [] OTHER -> FALSE

MatchOp(x, o, operand) ==
  CASE o = "$gt" -> x > operand.n
    [] o = "$lt" -> x < operand.n
    [] o = "$gte" -> x >= operand.n
    [] o = "$lte" -> x <= operand.n
    [] OTHER -> FALSE

MatchStringOp(x, o, operand, c) ==
  CASE o = "$in" -> \E k \in 1..Len(operand.raw.items) : operand.raw.items[k] = x
    [] o = "$regex" -> RegexMatchI(x, operand.raw.items[1])
    [] o = "$options" -> TRUE
    [] OTHER -> FALSE

MatchClause(l, f, c) ==
  IF f = "user_id" THEN c.lit = Str(l.user_id)
  ELSE IF f \in NumberPaths
  THEN /\ c.lit # NoLit => (c.lit # Str("") /\ Number(c.lit) = Num(l[f]))
       /\ \A o \in DOMAIN c.ops : MatchOp(l[f], o, c.ops[o])
  ELSE IF f \in StringPaths
  THEN /\ c.lit # NoLit => c.lit = Str(l[f])
       /\ \A o \in DOMAIN c.ops : MatchStringOp(l[f], o, c.ops[o], c)
  ELSE FALSE  \* no lead has such a path

Matches(l, q, strict) ==
  \A f \in CastPaths(q, strict) : MatchClause(l, f, q[f])

Matching(q, strict) == {l \in leads : Matches(l, q, strict)}

\* .sort({created_at: -1}): every order of the leads with created_at
\* descending; the store returns leads of equal created_at in any order
Sorted(ls) ==
  {sq \in [1..Cardinality(ls) -> ls] :
     /\ \A j, k \in DOMAIN sq : j # k => sq[j] # sq[k]
     /\ \A j, k \in DOMAIN sq : j < k => stamps[sq[j].id] >= stamps[sq[k].id]}

\* .skip(skip).limit(limit)
SkipLimit(sq, skip, limit) ==
  SubSeq(sq, skip + 1, IF skip + limit < Len(sq) THEN skip + limit ELSE Len(sq))

\* the results Lead.find(q).sort().skip().limit() may return
Find(q, strict, skip, limit) ==
  {SkipLimit(sq, skip, limit) : sq \in Sorted(Matching(q, strict))}

CountDocuments(q, strict) == Cardinality(Matching(q, strict))

\* the division rounded down
Ceil_Floor(total, limit) == total \div limit

\* Math.ceil(total / limit)
Ceil(total, limit) == (total + limit - 1) \div limit

(***************************************************************************)
(* GET /                                                                   *)
(***************************************************************************)
NoNum == -1
\* a page or limit that is no integer ("abc", "1.5")
NotInt == -2

NoList ==
  [pc |-> "idle", user |-> NoVal, rawPage |-> NoNum, rawLimit |-> NoNum,
   page |-> 0, limit |-> 0, query |-> EmptyOps,
   findDone |-> FALSE, countDone |-> FALSE, data |-> <<>>, total |-> 0,
   code |-> 0, msg |-> NoVal, totalPages |-> 0, hasNext |-> FALSE, hasPrev |-> FALSE]

ListAnswered(r, code, msg) ==
  [NoList EXCEPT !.pc = "done", !.user = r.user, !.rawPage = r.rawPage,
                 !.rawLimit = r.rawLimit, !.code = code, !.msg = msg]

\* the response with the page clamped to the last page
ListResponse_Clamped(r) ==
  LET totalPages == Ceil(r.total, r.limit)
      page == IF r.page > totalPages /\ totalPages >= 1 THEN totalPages ELSE r.page
  IN [NoList EXCEPT !.pc = "done", !.user = r.user, !.rawPage = r.rawPage,
                    !.rawLimit = r.rawLimit, !.code = 200,
                    !.data = r.data, !.page = page, !.limit = r.limit,
                    !.total = r.total, !.totalPages = totalPages,
                    !.hasNext = page < totalPages, !.hasPrev = page > 1]

\* res.status(200).json({data, pagination}) once Promise.all has resolved
ListResponse(r) ==
  LET totalPages == Ceil(r.total, r.limit) IN
  [NoList EXCEPT !.pc = "done", !.user = r.user, !.rawPage = r.rawPage,
                 !.rawLimit = r.rawLimit, !.code = 200,
                 !.data = r.data, !.page = r.page, !.limit = r.limit,
                 !.total = r.total, !.totalPages = totalPages,
                 !.hasNext = r.page < totalPages, !.hasPrev = r.page > 1]

\* the limit checked without its maximum
listValidation_NoMax(page, limit) ==
  (IF page = NoNum \/ page >= 1 THEN {} ELSE {"page"})
  \cup (IF limit = NoNum \/ limit >= 1 THEN {} ELSE {"limit"})

\* query('page').optional().isInt({min: 1}), query('limit').optional().isInt({min: 1, max: 100})
listValidation(page, limit) ==
  (IF page = NoNum \/ page >= 1 THEN {} ELSE {"page"})
  \cup (IF limit = NoNum \/ (limit >= 1 /\ limit <= 100) THEN {} ELSE {"limit"})

\* parseInt(x) || d
ParseIntOr(x, d) == IF x = NoNum \/ x = 0 THEN d ELSE x

GetLeads(u, page, limit, fs) ==
  /\ lst.pc = "idle"
  /\ LET r == [NoList EXCEPT !.user = u, !.rawPage = page, !.rawLimit = limit]
         c == buildFilterQuery(fs, u)
     IN lst' =
          IF listValidation(page, limit) # {} THEN ListAnswered(r, 400, MsgValidation)
          ELSE IF c.thrown THEN ListAnswered(r, 500, MsgFetchFail)
          ELSE [r EXCEPT !.pc = "query", !.page = ParseIntOr(page, 1),
                         !.limit = ParseIntOr(limit, 20), !.query = c.q]
  /\ UNCHANGED <<storeVars, filterVars, strictQuery, dash>>

GetLeadsFind ==
  /\ lst.pc = "query" /\ ~lst.findDone
  /\ \E data \in Find(lst.query, strictQuery, (lst.page - 1) * lst.limit, lst.limit) :
       lst' =
         IF QueryCastError(lst.query, strictQuery) THEN ListAnswered(lst, 500, MsgFetchFail)
         ELSE LET r == [lst EXCEPT !.findDone = TRUE, !.data = data]
              IN IF r.countDone THEN ListResponse(r) ELSE r
  /\ UNCHANGED <<storeVars, filterVars, strictQuery, dash>>

\* the response sent as soon as the count is known
GetLeadsCount_Early ==
  /\ lst.pc = "query" /\ ~lst.countDone
  /\ lst' =
       IF QueryCastError(lst.query, strictQuery) THEN ListAnswered(lst, 500, MsgFetchFail)
       ELSE ListResponse([lst EXCEPT !.countDone = TRUE,
                            !.total = CountDocuments(lst.query, strictQuery)])
  /\ UNCHANGED <<storeVars, filterVars, strictQuery, dash>>

GetLeadsCount ==
  /\ lst.pc = "query" /\ ~lst.countDone
  /\ lst' =
       IF QueryCastError(lst.query, strictQuery) THEN ListAnswered(lst, 500, MsgFetchFail)
       ELSE LET r == [lst EXCEPT !.countDone = TRUE,
                        !.total = CountDocuments(lst.query, strictQuery)]
            IN IF r.findDone THEN ListResponse(r) ELSE r
  /\ UNCHANGED <<storeVars, filterVars, strictQuery, dash>>

\* either repository call faults: Promise.all rejects, the catch answers 500
GetLeadsFault ==
  /\ lst.pc = "query"
  /\ lst' = ListAnswered(lst, 500, MsgFetchFail)
  /\ UNCHANGED <<storeVars, filterVars, strictQuery, dash>>

ListFinish ==
  /\ lst.pc = "done"
  /\ lst' = NoList
  /\ UNCHANGED <<storeVars, filterVars, strictQuery, dash>>

(***************************************************************************)
(* The Dashboard page: its React state, the pending effect that calls      *)
(* loadLeads, and the getLeads requests in flight.                         *)
(***************************************************************************)
DashPages == {1, 2}
DashLimits == {25, 50}
\* {} and one non-empty filter object
DashFilters == {"none", "won"}

NoRequest == [n |-> 0, page |-> 0, limit |-> 0, filters |-> NoVal]

\* the page after its first render: useState defaults, the effect pending
Mounted ==
  [page |-> 1, limit |-> 25, filters |-> "none", loading |-> TRUE,
   shown |-> NoRequest, effect |-> TRUE, inflight |-> {}, issued |-> 0,
   failed |-> FALSE]

\* a state setter changed a dependency of loadLeads: the effect runs again
DepsChanged(page, limit, filtersSet) ==
  dash.effect \/ page # dash.page \/ limit # dash.limit \/ filtersSet

\* useEffect(() => loadLeads()): setLoading(true), then getLeads(params)
\* with the page, limit and filters of this render, up to the await
LoadLeads ==
  /\ dash.effect
  /\ dash.issued < MaxRequests
  /\ dash' = [dash EXCEPT !.effect = FALSE, !.loading = TRUE,
                          !.issued = dash.issued + 1,
                          !.inflight = dash.inflight \cup
                            {[n |-> dash.issued + 1, page |-> dash.page,
                              limit |-> dash.limit, filters |-> dash.filters]}]
  /\ UNCHANGED <<storeVars, filterVars, listVars>>

\* the response of request number n arrives: setLeads, setPagination with
\* the page and limit the server echoes, finally setLoading(false)
LoadLeadsResolved(n) ==
  /\ \E r \in dash.inflight :
       /\ r.n = n
       /\ dash' = [dash EXCEPT !.shown = r, !.page = r.page, !.limit = r.limit,
                               !.effect = DepsChanged(r.page, r.limit, FALSE),
                               !.loading = FALSE,
                               !.inflight = dash.inflight \ {r}]
  /\ UNCHANGED <<storeVars, filterVars, listVars>>

\* request number n fails: toast.error, finally setLoading(false)
LoadLeadsRejected(n) ==
  /\ \E r \in dash.inflight :
       /\ r.n = n
       /\ dash' = [dash EXCEPT !.loading = FALSE, !.failed = TRUE,
                               !.inflight = dash.inflight \ {r}]
  /\ UNCHANGED <<storeVars, filterVars, listVars>>

\* the pagination controls are rendered only while loading is false
handlePageChange(newPage) ==
  /\ ~dash.loading
  /\ dash' = [dash EXCEPT !.page = newPage,
                          !.effect = DepsChanged(newPage, dash.limit, FALSE)]
  /\ UNCHANGED <<storeVars, filterVars, listVars>>

handleLimitChange(newLimit) ==
  /\ ~dash.loading
  /\ dash' = [dash EXCEPT !.limit = newLimit, !.page = 1,
                          !.effect = DepsChanged(1, newLimit, FALSE)]
  /\ UNCHANGED <<storeVars, filterVars, listVars>>

\* setFilters with a new object, setPagination to page 1
applyFilters(newFilters) ==
  /\ dash' = [dash EXCEPT !.filters = newFilters, !.page = 1, !.effect = TRUE]
  /\ UNCHANGED <<storeVars, filterVars, listVars>>

\* the button is rendered while filters has keys
clearFilters ==
  /\ dash.filters # "none"
  /\ dash' = [dash EXCEPT !.filters = "none", !.page = 1, !.effect = TRUE]
  /\ UNCHANGED <<storeVars, filterVars, listVars>>

NotCompiled == [done |-> FALSE, thrown |-> FALSE, q |-> EmptyOps]

InitStore ==
  /\ leads = {}
  /\ nextId = 1
  /\ reqs = [s \in Slots |-> Idle]
  /\ stamps = <<>>

InitFilterVars ==
  /\ filters = <<>>
  /\ owner = "u1"
  /\ compiled = NotCompiled

InitListVars ==
  /\ lst = NoList
  /\ strictQuery = FALSE

InitDash == dash = Mounted

Init ==
  /\ InitStore
  /\ InitFilterVars
  /\ InitListVars
  /\ InitDash

(***************************************************************************)
(* POST /                                                                  *)
(***************************************************************************)
PostLeads(s, u, b) ==
  /\ reqs[s].pc = "idle"
  /\ nextId + CreatesInFlight <= MaxIds
  /\ reqs' = [reqs EXCEPT ![s] =
       IF validationResult(b) # {}
       THEN Rejected("create", u, validationResult(b))
       ELSE Accepted("create", u, BadId, b)]
  /\ UNCHANGED <<leads, nextId, stamps, readVars>>

PostPreCheckFault(s) ==
  /\ reqs[s].pc = "precheck" /\ reqs[s].op = "create"
  /\ reqs' = [reqs EXCEPT ![s] = Answered(reqs[s], 500, MsgCreateFail, "fault", "none")]
  /\ UNCHANGED <<leads, nextId, stamps, readVars>>

PostPreCheck(s) ==
  /\ reqs[s].pc = "precheck" /\ reqs[s].op = "create"
  /\ reqs' = [reqs EXCEPT ![s] =
       IF ExistingLead(reqs[s]) # {}
       THEN Answered(reqs[s], 400, MsgDupCreate, "none", "precheck")
       ELSE [reqs[s] EXCEPT !.pc = "write"]]
  /\ UNCHANGED <<leads, nextId, stamps, readVars>>

PostSaveFault(s) ==
  /\ reqs[s].pc = "write" /\ reqs[s].op = "create"
  /\ reqs' = [reqs EXCEPT ![s] = Answered(reqs[s], 500, MsgCreateFail, "fault", "none")]
  /\ UNCHANGED <<leads, nextId, stamps, readVars>>

\* the catch block without the 11000 branch
PostCatch_No11000(r, err) ==
  Answered(r, 500, "Unable to create lead", err, IF err = "E11000" THEN "constraint" ELSE "none")

\* the catch block of POST: error.code === 11000 -> 400, anything else 500
PostCatch(r, err) ==
  IF err = "E11000"
  THEN Answered(r, 400, MsgDupCreate, err, "constraint")
  ELSE Answered(r, 500, MsgCreateFail, err, "none")

\* await lead.save() at time now: timestamps sets created_at to new Date()
Save(s, now) ==
  /\ reqs[s].pc = "write" /\ reqs[s].op = "create"
  /\ LET lead == NewLead(reqs[s], nextId) IN
     IF UniqueViolation(lead.email, lead.id)
     THEN /\ reqs' = [reqs EXCEPT ![s] = PostCatch(reqs[s], "E11000")]
          /\ UNCHANGED <<leads, nextId, stamps, readVars>>
     ELSE /\ leads' = leads \cup {lead}
          /\ nextId' = nextId + 1
          /\ stamps' = Append(stamps, now)
          /\ reqs' = [reqs EXCEPT ![s] =
               [Answered(reqs[s], 201, MsgCreated, "none", "none")
                  EXCEPT !.id = lead.id,
                         !.score = reqs[s].score, !.bstatus = reqs[s].bstatus]]
          /\ UNCHANGED readVars

\* the created_at of the lead saved last
LastStamp == IF stamps = <<>> THEN 0 ELSE stamps[Len(stamps)]

\* the save runs in a later millisecond than the save before it
PostSave(s) == Save(s, LastStamp + 1)

\* the save runs in the millisecond of the save before it
PostSaveSameMs(s) == stamps # <<>> /\ Save(s, LastStamp)

(***************************************************************************)
(* PUT /:id                                                                *)
(***************************************************************************)
\* the handler without the early return on validation errors
PutLead_NoValidation(s, u, i, b) ==
  /\ reqs[s].pc = "idle"
  /\ reqs' = [reqs EXCEPT ![s] =
       [Accepted("update", u, i, b) EXCEPT !.errors = validationResult(b)]]
  /\ UNCHANGED <<leads, nextId, stamps, readVars>>

PutLead(s, u, i, b) ==
  /\ reqs[s].pc = "idle"
  /\ reqs' = [reqs EXCEPT ![s] =
       IF validationResult(b) # {}
       THEN Rejected("update", u, validationResult(b))
       ELSE Accepted("update", u, i, b)]
  /\ UNCHANGED <<leads, nextId, stamps, readVars>>

\* the catch block of PUT: CastError -> 400, 11000 -> 400, anything else 500
PutCatch(r, err) ==
  IF err = "CastError"
  THEN Answered(r, 400, MsgBadId, err, "none")
  ELSE IF err = "E11000"
       THEN Answered(r, 400, MsgDupCreate, err, "constraint")
       ELSE Answered(r, 500, MsgUpdateFail, err, "none")

PutPreCheckFault(s) ==
  /\ reqs[s].pc = "precheck" /\ reqs[s].op = "update"
  /\ reqs' = [reqs EXCEPT ![s] = PutCatch(reqs[s], "fault")]
  /\ UNCHANGED <<leads, nextId, stamps, readVars>>

PutPreCheck(s) ==
  /\ reqs[s].pc = "precheck" /\ reqs[s].op = "update"
  /\ reqs' = [reqs EXCEPT ![s] =
       IF reqs[s].email = NoVal
       THEN [reqs[s] EXCEPT !.pc = "write"]
       ELSE IF reqs[s].id = BadId
            THEN PutCatch(reqs[s], "CastError")
            ELSE IF ExistingOther(reqs[s]) # {}
                 THEN Answered(reqs[s], 400, MsgDupOther, "none", "precheck")
                 ELSE [reqs[s] EXCEPT !.pc = "write"]]
  /\ UNCHANGED <<leads, nextId, stamps, readVars>>

PutFindOneAndUpdateFault(s) ==
  /\ reqs[s].pc = "write" /\ reqs[s].op = "update"
  /\ reqs' = [reqs EXCEPT ![s] = PutCatch(reqs[s], "fault")]
  /\ UNCHANGED <<leads, nextId, stamps, readVars>>

PutFindOneAndUpdate(s) ==
  /\ reqs[s].pc = "write" /\ reqs[s].op = "update"
  /\ LET r == reqs[s] IN
     IF r.id = BadId
     THEN /\ reqs' = [reqs EXCEPT ![s] = PutCatch(r, "CastError")]
          /\ UNCHANGED <<leads, nextId, stamps, readVars>>
     ELSE IF OwnLead(r.id, r.user) = {}
     THEN /\ reqs' = [reqs EXCEPT ![s] = Answered(r, 404, MsgNotFound, "none", "none")]
          /\ UNCHANGED <<leads, nextId, stamps, readVars>>
     ELSE LET old == CHOOSE l \in OwnLead(r.id, r.user) : TRUE
              new == Patched(old, r)
          IN IF UniqueViolation(new.email, new.id)
             THEN /\ reqs' = [reqs EXCEPT ![s] = PutCatch(r, "E11000")]
                  /\ UNCHANGED <<leads, nextId, stamps, readVars>>
             ELSE /\ leads' = (leads \ {old}) \cup {new}
                  /\ reqs' = [reqs EXCEPT ![s] =
                       [Answered(r, 200, MsgUpdated, "none", "none") EXCEPT !.id = r.id]]
                  /\ UNCHANGED <<nextId, stamps, readVars>>

(***************************************************************************)
(* DELETE /:id                                                             *)
(***************************************************************************)
DeleteCatch(r, err) ==
  IF err = "CastError"
  THEN Answered(r, 400, MsgBadId, err, "none")
  ELSE Answered(r, 500, MsgDeleteFail, err, "none")

DeleteLeadFault(s, u, i) ==
  /\ reqs[s].pc = "idle"
  /\ reqs' = [reqs EXCEPT ![s] =
       DeleteCatch([Idle EXCEPT !.op = "delete", !.user = u], "fault")]
  /\ UNCHANGED <<leads, nextId, stamps, readVars>>

DeleteLead(s, u, i) ==
  /\ reqs[s].pc = "idle"
  /\ LET r == [Idle EXCEPT !.op = "delete", !.user = u] IN
     IF i = BadId
     THEN /\ reqs' = [reqs EXCEPT ![s] = DeleteCatch(r, "CastError")]
          /\ UNCHANGED <<leads, nextId, stamps, readVars>>
     ELSE IF OwnLead(i, u) = {}
     THEN /\ reqs' = [reqs EXCEPT ![s] =
               [Answered(r, 404, MsgNotFound, "none", "none") EXCEPT !.id = i]]
          /\ UNCHANGED <<leads, nextId, stamps, readVars>>
     ELSE /\ leads' = leads \ OwnLead(i, u)
          /\ reqs' = [reqs EXCEPT ![s] =
               [Answered(r, 204, NoVal, "none", "none") EXCEPT !.id = i]]
          /\ UNCHANGED <<nextId, stamps, readVars>>

(***************************************************************************)
(* GET /:id                                                                *)
(***************************************************************************)
\* the catch block without the CastError branch
GetCatch_NoCastBranch(r, err) ==
  Answered(r, 500, MsgFetchLeadFail, err, "none")

GetCatch(r, err) ==
  IF err = "CastError"
  THEN Answered(r, 400, MsgBadId, err, "none")
  ELSE Answered(r, 500, MsgFetchLeadFail, err, "none")

GetLeadFault(s, u, i) ==
  /\ reqs[s].pc = "idle"
  /\ reqs' = [reqs EXCEPT ![s] =
       GetCatch([Idle EXCEPT !.op = "get", !.user = u], "fault")]
  /\ UNCHANGED <<leads, nextId, stamps, readVars>>

\* Lead.findOne({_id}) without the owner
GetLead_AnyOwner(s, u, i) ==
  /\ reqs[s].pc = "idle"
  /\ LET r == [Idle EXCEPT !.op = "get", !.user = u] IN
     reqs' = [reqs EXCEPT ![s] =
       IF i = BadId THEN GetCatch(r, "CastError")
       ELSE IF OwnLead_AnyOwner(i, u) = {}
            THEN [Answered(r, 404, MsgNotFound, "none", "none") EXCEPT !.id = i]
            ELSE [Answered(r, 200, NoVal, "none", "none")
                    EXCEPT !.id = i, !.data = CHOOSE l \in OwnLead_AnyOwner(i, u) : TRUE]]
  /\ UNCHANGED <<leads, nextId, stamps, readVars>>

\* Lead.findOne({_id, user_id}); populate('user_id') replaces the owner's
\* id by the owner's document and is left out of the data
GetLead(s, u, i) ==
  /\ reqs[s].pc = "idle"
  /\ LET r == [Idle EXCEPT !.op = "get", !.user = u] IN
     reqs' = [reqs EXCEPT ![s] =
       IF i = BadId THEN GetCatch(r, "CastError")
       ELSE IF OwnLead(i, u) = {}
            THEN [Answered(r, 404, MsgNotFound, "none", "none") EXCEPT !.id = i]
            ELSE [Answered(r, 200, NoVal, "none", "none")
                    EXCEPT !.id = i, !.data = CHOOSE l \in OwnLead(i, u) : TRUE]]
  /\ UNCHANGED <<leads, nextId, stamps, readVars>>

\* the response has been delivered; the connection serves the next request
Finish(s) ==
  /\ reqs[s].pc = "done"
  /\ reqs' = [reqs EXCEPT ![s] = Idle]
  /\ UNCHANGED <<leads, nextId, stamps, readVars>>

(***************************************************************************)
(* Requests of the uniqueness specification: payloads that differ in the   *)
(* email and in a user_id the client may smuggle in.                       *)
(***************************************************************************)
Bodies ==
  [email : RawEmails \cup {NoVal}, user_id : {NoVal} \cup Users,
   score : {NoScore}, status : {NoVal}]

ParamIds == Ids \cup {BadId}

Next ==
  \E s \in Slots :
    \/ \E u \in Users, b \in Bodies : PostLeads(s, u, b)
    \/ PostPreCheck(s)
    \/ PostPreCheckFault(s)
    \/ PostSave(s)
    \/ PostSaveFault(s)
    \/ \E u \in Users, i \in ParamIds, b \in Bodies : PutLead(s, u, i, b)
    \/ PutPreCheck(s)
    \/ PutPreCheckFault(s)
    \/ PutFindOneAndUpdate(s)
    \/ PutFindOneAndUpdateFault(s)
    \/ \E u \in Users, i \in ParamIds : DeleteLead(s, u, i)
    \/ \E u \in Users, i \in ParamIds : DeleteLeadFault(s, u, i)
    \/ Finish(s)

Spec == Init /\ [][Next]_vars

(***************************************************************************)
(* buildFilterQuery on its own: every list of at most MaxFilters           *)
(* parameters with distinct keys, in every order, for every owner.         *)
(***************************************************************************)
FilterParams ==
  { Param(<<"score", "gt">>, Str("50")),
    Param(<<"score", "gt">>, Str("abc")),
    Param(<<"score", "lt">>, Str("60")),
    Param(<<"score", "equals">>, Str("70")),
    Param(<<"score", "between">>, Arr(<<"10", "60">>)),
    Param(<<"score", "between">>, Str("10")),
    Param(<<"score", "before">>, Str("abc")),
    Param(<<"score", "after">>, Str("2024-01-15")),
    Param(<<"score", "zzz">>, Str("1")),
    Param(<<"status">>, Str("won")),
    Param(<<"status", "equals">>, Str("")),
    Param(<<"status", "in">>, Str("won")),
    Param(<<"email", "contains">>, Str("X")),
    Param(<<"created", "at", "on">>, Str("2024-01-15")),
    Param(<<"day", "on">>, Str("2024-01-15")),
    Param(<<"is", "qualified">>, Str("true")),
    Param(<<"user", "id">>, Str("u2")),
    Param(<<"foo", "bar">>, Str("1")),
    Param(<<"foo", "gt">>, Str("50")),
    Param(<<"foo">>, Str("1")) }

DistinctKeys(fs) ==
  \A i, j \in 1..Len(fs) : i # j => fs[i].key # fs[j].key

FilterInputs ==
  {fs \in UNION {[1..n -> FilterParams] : n \in 0..MaxFilters} : DistinctKeys(fs)}

InitFilter ==
  /\ InitStore
  /\ InitListVars
  /\ InitDash
  /\ filters \in FilterInputs
  /\ owner \in Users
  /\ compiled = NotCompiled

\* const filterQuery = buildFilterQuery(filters, req.user._id)
BuildFilterQuery ==
  /\ ~compiled.done
  /\ compiled' = buildFilterQuery(filters, owner)
  /\ UNCHANGED <<storeVars, filters, owner, listVars, dash>>

NextFilter == BuildFilterQuery

SpecFilter == InitFilter /\ [][NextFilter]_vars

(***************************************************************************)
(* Listing while one connection writes: the payloads differ in score and   *)
(* status, the list requests in page, limit and filter parameters.         *)
(***************************************************************************)
ListBodies ==
  [email : {"a@x.io", "b@x.io"}, user_id : {NoVal},
   score : {NoScore, 70}, status : {NoVal}]

ListPutBodies ==
  [email : {"a@x.io"}, user_id : {NoVal}, score : {70}, status : {NoVal}]

ListParams ==
  { Param(<<"score", "gt">>, Str("50")),
    Param(<<"score", "gt">>, Str("abc")),
    Param(<<"status">>, Str("new")),
    Param(<<"user", "id">>, Str("u2")),
    Param(<<"foo", "bar">>, Str("1")) }

ListInputs ==
  {fs \in UNION {[1..n -> ListParams] : n \in 0..MaxFilters} : DistinctKeys(fs)}

Pages == {NoNum, 0}
Limits == {NoNum}

InitList ==
  /\ InitStore
  /\ InitFilterVars
  /\ lst = NoList
  /\ strictQuery \in BOOLEAN
  /\ InitDash

NextList ==
  \/ \E u \in Users, b \in ListBodies : PostLeads("r1", u, b)
  \/ PostPreCheck("r1")
  \/ PostSave("r1")
  \/ \E u \in Users, i \in Ids, b \in ListPutBodies : PutLead("r1", u, i, b)
  \/ PutPreCheck("r1")
  \/ PutFindOneAndUpdate("r1")
  \/ \E u \in Users, i \in Ids : DeleteLead("r1", u, i)
  \/ Finish("r1")
  \/ \E u \in Users, pg \in Pages, lm \in Limits, fs \in ListInputs : GetLeads(u, pg, lm, fs)
  \/ GetLeadsFind
  \/ GetLeadsCount
  \/ GetLeadsFault
  \/ ListFinish

SpecList == InitList /\ [][NextList]_vars

(***************************************************************************)
(* Paging: one connection creates and deletes leads of one user while that *)
(* user lists them with every kind of page and limit.                      *)
(***************************************************************************)
PageUsers == {"u1"}

PageBodies ==
  [email : {"a@x.io", "b@x.io", "c@x.io"}, user_id : {NoVal},
   score : {NoScore}, status : {NoVal}]

PagePages == {NoNum, NotInt, 0, 1, 2, 3}
PageLimits == {NoNum, NotInt, 0, 1, 2, 100, 101}

\* no filter, and a pair of filters on which buildFilterQuery throws
PageFilters ==
  { <<>>,
    <<Param(<<"score", "equals">>, Str("70")), Param(<<"score", "gt">>, Str("50"))>> }

NextPage ==
  \/ \E u \in PageUsers, b \in PageBodies : PostLeads("r1", u, b)
  \/ PostPreCheck("r1")
  \/ PostSave("r1")
  \/ \E u \in PageUsers, i \in Ids : DeleteLead("r1", u, i)
  \/ Finish("r1")
  \/ \E u \in PageUsers, pg \in PagePages, lm \in PageLimits, fs \in PageFilters :
       GetLeads(u, pg, lm, fs)
  \/ GetLeadsFind
  \/ GetLeadsCount
  \/ GetLeadsFault
  \/ ListFinish

SpecPage == InitList /\ [][NextPage]_vars

(***************************************************************************)
(* Round trip: one connection creates leads, the other reads them by id.   *)
(* No lead is updated or deleted.                                          *)
(***************************************************************************)
RoundBodies ==
  [email : {"a@x.io", "A@x.io", "b@x.io", "not-an-email"}, user_id : {NoVal, "u2"},
   score : {NoScore, 70}, status : {NoVal, "won"}]

NextRound ==
  \/ \E u \in Users, b \in RoundBodies : PostLeads("r1", u, b)
  \/ PostPreCheck("r1")
  \/ PostSave("r1")
  \/ \E u \in Users, i \in ParamIds : GetLead("r2", u, i)
  \/ \E u \in Users, i \in ParamIds : GetLeadFault("r2", u, i)
  \/ \E s \in Slots : Finish(s)

SpecRound == Init /\ [][NextRound]_vars

(***************************************************************************)
(* Access by id: one connection creates leads for both users, the other    *)
(* reads, updates and deletes by id, with well-formed and malformed ids.   *)
(***************************************************************************)
AccessBodies ==
  [email : {"a@x.io", "b@x.io", "not-an-email"}, user_id : {NoVal},
   score : {NoScore}, status : {NoVal}]

AccessPutBodies ==
  [email : {"a@x.io", "b@x.io", "not-an-email"}, user_id : {NoVal},
   score : {NoScore, 70}, status : {NoVal}]

NextAccess ==
  \/ \E u \in Users, b \in AccessBodies : PostLeads("r1", u, b)
  \/ PostPreCheck("r1")
  \/ PostSave("r1")
  \/ Finish("r1")
  \/ \E u \in Users, i \in ParamIds : GetLead("r2", u, i)
  \/ \E u \in Users, i \in ParamIds : GetLeadFault("r2", u, i)
  \/ \E u \in Users, i \in ParamIds, b \in AccessPutBodies : PutLead("r2", u, i, b)
  \/ PutPreCheck("r2")
  \/ PutPreCheckFault("r2")
  \/ PutFindOneAndUpdate("r2")
  \/ PutFindOneAndUpdateFault("r2")
  \/ \E u \in Users, i \in ParamIds : DeleteLead("r2", u, i)
  \/ \E u \in Users, i \in ParamIds : DeleteLeadFault("r2", u, i)
  \/ Finish("r2")

SpecAccess == Init /\ [][NextAccess]_vars

(***************************************************************************)
(* A sweep over the pages of a store whose leads may share a created_at.   *)
(***************************************************************************)
SweepPages == {1, 2, 3}
SweepLimits == {1, 2}

NextSweep ==
  \/ \E u \in PageUsers, b \in PageBodies : PostLeads("r1", u, b)
  \/ PostPreCheck("r1")
  \/ PostSave("r1")
  \/ PostSaveSameMs("r1")
  \/ Finish("r1")
  \/ \E u \in PageUsers, pg \in SweepPages, lm \in SweepLimits : GetLeads(u, pg, lm, <<>>)
  \/ GetLeadsFind
  \/ GetLeadsCount
  \/ ListFinish

SpecSweep == InitList /\ [][NextSweep]_vars

(***************************************************************************)
(* The Dashboard on its own: the user changes page, limit and filters while *)
(* responses arrive in any order.                                          *)
(***************************************************************************)
NextDash ==
  \/ LoadLeads
  \/ \E n \in 1..MaxRequests : LoadLeadsResolved(n)
  \/ \E n \in 1..MaxRequests : LoadLeadsRejected(n)
  \/ \E pg \in DashPages : handlePageChange(pg)
  \/ \E lm \in DashLimits : handleLimitChange(lm)
  \/ \E f \in DashFilters \ {"none"} : applyFilters(f)
  \/ clearFilters

SpecDash == Init /\ [][NextDash]_vars

(***************************************************************************)
(* Properties of the lead store                                            *)
(***************************************************************************)
\* the leads of owner u that carry email e
LeadsOf(u, e) == {l \in leads : l.user_id = u /\ l.email = e}

\* slot s is answered in this step and its repository call did not fault
AnsweredNow(s) == reqs[s].pc # "done" /\ reqs'[s].pc = "done" /\ reqs'[s].err # "fault"

\* slot s takes a step whose repository call does not fault
StepsNow(s) == reqs'[s] # reqs[s] /\ reqs'[s].err # "fault"

DupMessages == {MsgDupCreate, MsgDupOther}

\* C1: in every reachable state no two stored leads of one owner have the
\* same email.
C1_UniquePerOwner ==
  \A l1, l2 \in leads :
    (l1.user_id = l2.user_id /\ l1.email = l2.email) => l1.id = l2.id

\* two leads of one owner are stored and a write was refused by the index
C1_Witness ==
  /\ \E l1, l2 \in leads : l1.id # l2.id /\ l1.user_id = l2.user_id
  /\ \E s \in Slots : reqs[s].pc = "done" /\ reqs[s].via = "constraint"

\* C2: when the pre-check of a create runs while a lead of the same owner
\* with the same email is stored, the request is answered 400 with the
\* duplicate-email message and the store is unchanged.
C2_DuplicateCreateRejected ==
  [][\A s \in Slots :
       (/\ reqs[s].op = "create" /\ reqs[s].pc = "precheck"
        /\ StepsNow(s)
        /\ LeadsOf(reqs[s].user, reqs[s].email) # {})
       => (/\ reqs'[s].pc = "done"
           /\ reqs'[s].code = 400
           /\ reqs'[s].msg = MsgDupCreate
           /\ leads' = leads)]_vars

C2_Witness ==
  \E s \in Slots :
    /\ reqs[s].pc = "done" /\ reqs[s].op = "create"
    /\ reqs[s].code = 400 /\ reqs[s].via = "precheck"
    /\ LeadsOf(reqs[s].user, reqs[s].email) # {}

\* C3 (as claimed): a create by owner X whose email is used by a lead of
\* another owner, and by no lead of X, is answered 201 and stores a new lead
\* owned by X.
C3_CrossOwnerCreateSucceeds ==
  [][\A s \in Slots :
       (/\ reqs[s].op = "create" /\ reqs[s].pc = "write"
        /\ AnsweredNow(s)
        /\ LeadsOf(reqs[s].user, reqs[s].email) = {}
        /\ \E l \in leads : l.email = reqs[s].email /\ l.user_id # reqs[s].user)
       => (/\ reqs'[s].code = 201
           /\ \E l \in leads' \ leads :
                l.user_id = reqs[s].user /\ l.email = reqs[s].email)]_vars

\* C4: when the save of a create runs while a lead of the same owner with
\* the same email is stored (the other request won the race after this
\* one's pre-check), the request is answered 400 with the duplicate-email
\* message, not 500, and exactly one such lead stays stored.
C4_RaceLoserGetsDuplicate ==
  [][\A s \in Slots :
       (/\ reqs[s].op = "create" /\ reqs[s].pc = "write"
        /\ StepsNow(s)
        /\ LeadsOf(reqs[s].user, reqs[s].email) # {})
       => (/\ reqs'[s].pc = "done"
           /\ reqs'[s].code = 400
           /\ reqs'[s].msg = MsgDupCreate
           /\ leads' = leads
           /\ Cardinality(LeadsOf(reqs[s].user, reqs[s].email)') = 1)]_vars

\* both creates are answered: t stored the lead, s lost at the index
C4_Witness ==
  \E s, t \in Slots :
    /\ s # t
    /\ reqs[s].pc = "done" /\ reqs[s].op = "create"
    /\ reqs[s].code = 400 /\ reqs[s].via = "constraint"
    /\ reqs[t].pc = "done" /\ reqs[t].op = "create" /\ reqs[t].code = 201
    /\ reqs[t].user = reqs[s].user /\ reqs[t].email = reqs[s].email
    /\ \E l \in LeadsOf(reqs[s].user, reqs[s].email) : l.id = reqs[t].id

\* the lead A an update addresses, when its requester owns it
OwnedTarget(r) == {l \in leads : l.id = r.id /\ l.user_id = r.user}

\* another lead B of the requester that carries the email of the payload
OtherWithEmail(r) ==
  {l \in leads : l.id # r.id /\ l.user_id = r.user /\ l.email = r.email}

\* C5: an update of lead A that sets its email to that of another lead B of
\* the same owner is answered 400 with a duplicate-email message, at the
\* pre-check or at the write, and leaves A and B unchanged.
C5_UpdateToOtherEmailRejected ==
  [][\A s \in Slots :
       (/\ reqs[s].op = "update" /\ reqs[s].pc \in {"precheck", "write"}
        /\ StepsNow(s)
        /\ OwnedTarget(reqs[s]) # {}
        /\ OtherWithEmail(reqs[s]) # {})
       => (/\ reqs'[s].pc = "done"
           /\ reqs'[s].code = 400
           /\ reqs'[s].msg \in DupMessages
           /\ leads' = leads)]_vars

C5_Witness ==
  \E s \in Slots :
    /\ reqs[s].pc = "done" /\ reqs[s].op = "update"
    /\ reqs[s].code = 400 /\ reqs[s].via = "precheck"
    /\ \E a, b \in leads :
         /\ a.id # b.id /\ a.user_id = reqs[s].user /\ b.user_id = reqs[s].user
         /\ b.email = reqs[s].email /\ a.email # reqs[s].email

\* C6: an update of lead A by its owner that supplies A's current email
\* passes the pre-check (A itself is excluded) and the write answers 200,
\* A keeping that email.
C6_UpdateOwnEmailSucceeds ==
  [][\A s \in Slots :
       (/\ reqs[s].op = "update" /\ reqs[s].pc \in {"precheck", "write"}
        /\ StepsNow(s)
        /\ \E a \in OwnedTarget(reqs[s]) : a.email = reqs[s].email)
       => IF reqs[s].pc = "precheck"
          THEN reqs'[s].pc = "write"
          ELSE /\ reqs'[s].pc = "done"
               /\ reqs'[s].code = 200
               /\ \E a \in leads' : a.id = reqs[s].id /\ a.email = reqs[s].email]_vars

\* the pre-check has passed for an update that repeats the lead's own email
C6_Witness ==
  \E s \in Slots :
    /\ reqs[s].pc = "write" /\ reqs[s].op = "update"
    /\ \E a \in OwnedTarget(reqs[s]) : a.email = reqs[s].email

\* slot s was answered with a duplicate-email failure
DuplicateFailure(s) ==
  reqs[s].pc = "done" /\ reqs[s].via \in {"precheck", "constraint"}

\* C7 (as claimed): two duplicate-email failures of the same operation carry
\* the same message, whichever layer detected the duplicate.
C7_SameDuplicateMessage ==
  \A s, t \in Slots :
    (DuplicateFailure(s) /\ DuplicateFailure(t) /\ reqs[s].op = reqs[t].op)
    => reqs[s].msg = reqs[t].msg

(***************************************************************************)
(* Properties of the filter compiler and of the list                       *)
(***************************************************************************)
\* C8: the predicate a list request hands to the repository constrains
\* user_id to exactly the requesting user, whatever the filter parameters,
\* and a list response contains only leads of the requesting user.
C8_ListOwnerScoped ==
  /\ lst.pc = "query" =>
       /\ "user_id" \in DOMAIN lst.query
       /\ lst.query["user_id"] = [lit |-> Str(lst.user), ops |-> <<>>]
  /\ (lst.pc = "done" /\ lst.code = 200) =>
       \A k \in 1..Len(lst.data) : lst.data[k].user_id = lst.user

\* a list with a user_id parameter has fetched leads while another user's
\* leads are stored
C8_Witness ==
  /\ lst.pc = "query" /\ lst.findDone
  /\ "user" \in DOMAIN lst.query
  /\ Len(lst.data) > 0
  /\ \E l \in leads : l.user_id # lst.user

\* the fields and the operators the specification recognizes, a key being
\* <field>_<operator> or a bare field
LeadFields ==
  { <<"first", "name">>, <<"last", "name">>, <<"email">>, <<"phone">>,
    <<"company">>, <<"city">>, <<"state">>, <<"source">>, <<"status">>,
    <<"score">>, <<"lead", "value">>, <<"is", "qualified">>,
    <<"last", "activity", "at">>, <<"created", "at">>, <<"updated", "at">> }

FilterOperators ==
  {"equals", "contains", "in", "gt", "lt", "between", "before", "after", "on"}

BareFields == {<<"status">>, <<"source">>, <<"is", "qualified">>}

Unrecognized(key) ==
  /\ key \notin BareFields
  /\ \/ Len(key) = 1
     \/ SubSeq(key, 1, Len(key) - 1) \notin LeadFields
     \/ key[Len(key)] \notin FilterOperators

Without(fs, k) == SubSeq(fs, 1, k - 1) \o SubSeq(fs, k + 1, Len(fs))

\* C9 (as claimed): a parameter whose field or operator is not recognized
\* is dropped: the compilation gives what it gives without that parameter.
C9_UnknownKeyDropped ==
  compiled.done =>
    \A k \in 1..Len(filters) :
      Unrecognized(filters[k].key) =>
        LET rest == ForEachKey([done |-> TRUE, thrown |-> FALSE,
                                q |-> "user_id" :> [lit |-> Str(owner), ops |-> <<>>]],
                               Without(filters, k), 1)
        IN compiled = rest

\* a parameter with a numeric operator whose value is no number, or with a
\* date operator whose value is no date
Unparseable(p) ==
  /\ Len(p.key) > 1
  /\ LET op == p.key[Len(p.key)] IN
     \/ op \in {"gt", "lt"} /\ Number(p.val).t = "nan"
     \/ /\ op = "between" /\ p.val.arr /\ Len(p.val.items) = 2
        /\ \E k \in 1..2 : NumberOfString(p.val.items[k]).t = "nan"
     \/ op \in {"before", "after", "on"} /\ NewDate(p.val).t = "invalid-date"

\* C10 (as claimed): a compilation with an unparseable numeric or date
\* value fails, and no compiled predicate holds NaN or an invalid date.
C10_UnparseableValueFails ==
  compiled.done =>
    /\ (\E k \in 1..Len(filters) : Unparseable(filters[k])) => compiled.thrown
    /\ ~compiled.thrown =>
         \A f \in DOMAIN compiled.q : \A o \in DOMAIN compiled.q[f].ops :
           compiled.q[f].ops[o].t \notin {"nan", "invalid-date"}

\* leads of every owner with scores around the bounds of the filters
LeadUniverse ==
  [id : {1}, user_id : Users, email : {"a@x.io"},
   score : {0, 10, 49, 50, 51, 59, 60, 61, 70, 100}, status : {"new", "won"}]

\* C11: score_gt=v alone compiles, without a throw or a cast error, to a
\* predicate that matches exactly the leads of the requesting owner with
\* score > v, and score_lt=v exactly those with score < v.
C11_ScoreGtLtExact ==
  (/\ compiled.done /\ Len(filters) = 1
   /\ filters[1].key \in {<<"score", "gt">>, <<"score", "lt">>}
   /\ Number(filters[1].val).t = "num")
  => LET v == Number(filters[1].val).n
         gt == filters[1].key[2] = "gt"
     IN /\ ~compiled.thrown
        /\ \A strict \in BOOLEAN :
             /\ ~QueryCastError(compiled.q, strict)
             /\ \A l \in LeadUniverse :
                  Matches(l, compiled.q, strict) <=>
                    (l.user_id = owner /\ IF gt THEN l.score > v ELSE l.score < v)

C11_Witness ==
  /\ compiled.done
  /\ filters = <<[key |-> <<"score", "gt">>, val |-> Str("50")]>>
  /\ "score" \in DOMAIN compiled.q

\* C12 (as claimed): the bare key is_qualified compiles to a direct
\* equality clause on the is_qualified field.
C12_BareIsQualified ==
  (compiled.done /\ Len(filters) = 1 /\ filters[1].key = <<"is", "qualified">>)
  => /\ ~compiled.thrown
     /\ DOMAIN compiled.q = {"user_id", "is_qualified"}
     /\ compiled.q["is_qualified"] = [lit |-> filters[1].val, ops |-> <<>>]

\* C13 (as claimed): created_at_on=D compiles to a clause on created_at
\* that spans the day D from 00:00:00.000 to 23:59:59.999.
C13_CreatedAtOn ==
  (/\ compiled.done
   /\ filters = <<[key |-> <<"created", "at", "on">>, val |-> Str("2024-01-15")]>>)
  => /\ ~compiled.thrown
     /\ DOMAIN compiled.q = {"user_id", "created_at"}
     /\ DOMAIN compiled.q["created_at"].ops = {"$gte", "$lte"}
     /\ compiled.q["created_at"].ops["$gte"] = DateAt(0)
     /\ compiled.q["created_at"].ops["$lte"] = DateAt(86399999)

(***************************************************************************)
(* Paging of GET /                                                         *)
(***************************************************************************)
\* the leads of the listing user that were created after l
ListedLeads == {l \in leads : l.user_id = lst.user}

NewerThan(l) == {m \in ListedLeads : m.id > l.id}

\* the leads a window of `limit` records after `skip` newer ones holds
Window(skip, limit) ==
  {l \in ListedLeads :
     Cardinality(NewerThan(l)) >= skip /\ Cardinality(NewerThan(l)) < skip + limit}

SeqRange(sq) == {sq[k] : k \in 1..Len(sq)}

Unfiltered == lst.pc = "query" /\ DOMAIN lst.query = {"user_id"}

FetchStep == Unfiltered /\ ~lst.findDone /\ lst'.pc # "idle" /\ (lst'.findDone \/ lst'.code = 200)

Responds == lst.pc = "query" /\ lst'.pc = "done" /\ lst'.code = 200

\* C14: a paged list fetch skips (page - 1) * limit records, newest first,
\* and returns at most limit of them; the response carries totalPages =
\* ceil(total / limit), hasNext = page < totalPages and hasPrev = page > 1,
\* with page and limit as requested (1 and 20 when absent).
C14_PaginationMeta ==
  [][ /\ FetchStep =>
           LET data == lst'.data
               skip == (lst.page - 1) * lst.limit
           IN /\ SeqRange(data) = Window(skip, lst.limit)
              /\ Len(data) = Cardinality(Window(skip, lst.limit))
              /\ \A j, k \in 1..Len(data) : j < k => data[j].id > data[k].id
      /\ Responds =>
           /\ lst'.page = (IF lst.rawPage = NoNum THEN 1 ELSE lst.rawPage)
           /\ lst'.limit = (IF lst.rawLimit = NoNum THEN 20 ELSE lst.rawLimit)
           /\ lst'.totalPages * lst'.limit >= lst'.total
           /\ lst'.totalPages >= 0
           /\ lst'.totalPages > 0 => (lst'.totalPages - 1) * lst'.limit < lst'.total
           /\ lst'.hasNext <=> lst'.page < lst'.totalPages
           /\ lst'.hasPrev <=> lst'.page > 1
    ]_vars

\* page 2 of three leads listed one per page
C14_Witness ==
  /\ lst.pc = "done" /\ lst.code = 200
  /\ lst.page = 2 /\ lst.limit = 1 /\ lst.total = 3 /\ lst.totalPages = 3
  /\ Len(lst.data) = 1 /\ lst.hasNext /\ lst.hasPrev

BeyondLast == lst.pc = "done" /\ lst.code = 200 /\ lst.page > lst.totalPages

\* C15 as stated: a list response whose page is greater than totalPages has
\* zero records, echoes the requested page, has hasNext false and hasPrev true.
C15_BeyondLastPage_Stated ==
  BeyondLast =>
    /\ Len(lst.data) = 0
    /\ lst.page = (IF lst.rawPage = NoNum THEN 1 ELSE lst.rawPage)
    /\ ~lst.hasNext
    /\ lst.hasPrev

\* C15: a page beyond the last page is not clamped: the fetch returns zero
\* records whenever (page - 1) * limit is at least the number of the user's
\* leads at the time of the fetch, and a response with page > totalPages
\* echoes the requested page (1 when absent) with hasNext false and hasPrev
\* true exactly if page > 1.
C15_BeyondLastPage ==
  [][ /\ (FetchStep /\ (lst.page - 1) * lst.limit >= Cardinality(ListedLeads))
           => Len(lst'.data) = 0
      /\ (Responds /\ lst.page > lst'.totalPages) =>
           /\ lst'.page = (IF lst.rawPage = NoNum THEN 1 ELSE lst.rawPage)
           /\ ~lst'.hasNext
           /\ lst'.hasPrev <=> lst'.page > 1
    ]_vars

\* page 3 of two leads listed one per page
C15_Witness ==
  /\ BeyondLast /\ lst.page = 3 /\ lst.rawPage = 3 /\ lst.limit = 1
  /\ lst.total = 2 /\ Len(lst.data) = 0 /\ lst.hasPrev

InvalidPage(x) == x # NoNum /\ (x = NotInt \/ x < 1)
InvalidLimit(x) == x # NoNum /\ (x = NotInt \/ x < 1 \/ x > 100)

\* C16: a list request whose page is not an integer >= 1, or whose limit is
\* not an integer in 1..100, is answered 400 'Validation failed'; it never
\* reaches the filter compilation or the repository.
C16_BadPagingRejected ==
  (lst.pc # "idle" /\ (InvalidPage(lst.rawPage) \/ InvalidLimit(lst.rawLimit))) =>
    /\ lst.pc = "done"
    /\ lst.code = 400
    /\ lst.msg = MsgValidation
    /\ ~lst.findDone /\ ~lst.countDone

\* limit 101 rejected
C16_Witness ==
  lst.pc = "done" /\ lst.code = 400 /\ lst.rawLimit = 101 /\ lst.rawPage = 1

(***************************************************************************)
(* DELETE /:id, GET /:id and the validation of payloads                    *)
(***************************************************************************)
\* the answer of slot s names a well-formed id under which its user owns nothing
NothingOwned(s) ==
  /\ reqs'[s].id \in Ids
  /\ ~\E l \in leads : l.id = reqs'[s].id /\ l.user_id = reqs'[s].user

\* C17: a delete of a well-formed id that names no lead, and a delete of the
\* id of a lead of another user, get the same 404 'Lead not found' answer
\* and leave the store unchanged.
C17_DeleteNotFoundUniform ==
  [][ \A s \in Slots :
        (AnsweredNow(s) /\ reqs'[s].op = "delete" /\ NothingOwned(s)) =>
          /\ reqs'[s] = [Idle EXCEPT !.pc = "done", !.op = "delete",
                                     !.user = reqs'[s].user, !.id = reqs'[s].id,
                                     !.code = 404, !.msg = MsgNotFound]
          /\ leads' = leads
          /\ nextId' = nextId
    ]_vars

\* a delete answered 404 under an id that is a lead of another user
C17_Witness ==
  \E s \in Slots :
    /\ reqs[s].pc = "done" /\ reqs[s].op = "delete" /\ reqs[s].code = 404
    /\ \E l \in leads : l.id = reqs[s].id /\ l.user_id # reqs[s].user

\* slot s holds the 201 answer of a create
Created(s) == reqs[s].pc = "done" /\ reqs[s].op = "create" /\ reqs[s].code = 201

\* C18: once a create has succeeded, a get-by-id of the returned id by the
\* same user returns the payload as normalized, with score 0 and status
\* 'new' where the payload omitted them, and the id the create returned.
C18_CreateThenGet ==
  [][ \A s, t \in Slots :
        (/\ s # t /\ Created(s)
         /\ AnsweredNow(t) /\ reqs'[t].op = "get"
         /\ reqs'[t].user = reqs[s].user /\ reqs'[t].id = reqs[s].id) =>
          /\ reqs'[t].code = 200
          /\ reqs'[t].data =
               [id |-> reqs[s].id,
                user_id |-> reqs[s].user,
                email |-> reqs[s].email,
                score |-> IF reqs[s].score = NoScore THEN 0 ELSE reqs[s].score,
                status |-> IF reqs[s].bstatus = NoVal THEN "new" ELSE reqs[s].bstatus]
    ]_vars

\* a lead created with a score and without a status, read back
C18_Witness ==
  \E s, t \in Slots :
    /\ Created(s) /\ reqs[s].score = 70 /\ reqs[s].bstatus = NoVal
    /\ reqs[t].pc = "done" /\ reqs[t].op = "get" /\ reqs[t].code = 200
    /\ reqs[t].id = reqs[s].id /\ reqs[t].user = reqs[s].user
    /\ reqs[t].data.score = 70 /\ reqs[t].data.status = "new"

\* C19 as stated: no answer to an update reports a field that the payload
\* does not carry as a validation violation.
C19_PartialUpdateAccepted ==
  \A s \in Slots :
    (reqs[s].pc = "done" /\ reqs[s].op = "update") =>
      \A e \in reqs[s].errors : ~e.undefined

\* C20: a create or update whose payload fails validation is answered 400
\* 'Validation failed' in the step that receives it: no repository call is
\* issued for it and the store is unchanged.
C20_InvalidPayloadRejected ==
  [][ \A s \in Slots :
        (reqs'[s] # reqs[s] /\ reqs'[s].errors # {}) =>
          /\ reqs[s].pc = "idle"
          /\ reqs'[s].pc = "done"
          /\ reqs'[s].op \in {"create", "update"}
          /\ reqs'[s].code = 400 /\ reqs'[s].msg = MsgValidation
          /\ reqs'[s].err = "none" /\ reqs'[s].via = "none"
          /\ leads' = leads /\ nextId' = nextId
    ]_vars

\* an update with a malformed email rejected while a lead is stored
C20_Witness ==
  \E s \in Slots :
    /\ reqs[s].pc = "done" /\ reqs[s].op = "update" /\ reqs[s].code = 400
    /\ [path |-> "email", undefined |-> FALSE] \in reqs[s].errors
    /\ leads # {}

(***************************************************************************)
(* Identifiers and ownership                                               *)
(***************************************************************************)
\* the id of the request that slot s answers in this step: an update holds
\* it while in flight, a get or delete in its answer
RequestId(s) == IF reqs'[s].op = "update" THEN reqs[s].id ELSE reqs'[s].id

ByIdNow(s) ==
  /\ AnsweredNow(s)
  /\ \/ reqs'[s].op \in {"get", "delete"}
     \/ reqs'[s].op = "update" /\ reqs[s].pc \in {"precheck", "write"}

OwnsNone(s) == ~\E l \in leads : l.id = RequestId(s) /\ l.user_id = reqs'[s].user

\* the requester holds the email of the update under another id
OwnDuplicate(s) ==
  /\ reqs'[s].op = "update"
  /\ \E l \in leads : /\ l.user_id = reqs'[s].user /\ l.email = reqs[s].email
                      /\ l.id # RequestId(s)

Foreign(s) == \E l \in leads : l.id = RequestId(s) /\ l.user_id # reqs'[s].user

\* no lead of another user is returned, changed or removed by the step of s
OthersUntouched(s) ==
  /\ \A l \in leads \ leads' : l.user_id = reqs'[s].user
  /\ reqs'[s].code = 200 /\ reqs'[s].op = "get" => reqs'[s].data.user_id = reqs'[s].user

C26_OwnerFixed ==
  [][ \A l \in leads, m \in leads' : l.id = m.id => l.user_id = m.user_id ]_vars

(***************************************************************************)
(* Server faults and the two queries of a list request                     *)
(***************************************************************************)
\* C22 as stated: a list request is answered 500 only by a step of one of
\* its repository calls, never by the step that receives the request.
C22_ServerErrorOnlyOnFault ==
  [][ (lst.pc # "done" /\ lst'.pc = "done" /\ lst'.code = 500) => lst.pc = "query" ]_vars

\* C23: the fetch and the count of a list request complete in separate
\* steps, in either order; the 200 response is sent by the step that
\* completes the second of them, with the records of this request's fetch
\* and the total of this request's count; a step that fails answers 500,
\* and an answer is never replaced by another.
C23_CombinedAfterBoth ==
  [][ /\ (lst.pc = "query" /\ lst'.pc = "query" /\ lst' # lst) =>
           /\ ~lst.findDone /\ ~lst.countDone
           /\ lst'.findDone # lst'.countDone
      /\ (lst.pc = "query" /\ lst'.pc = "done") =>
           \/ lst'.code = 500 /\ lst'.data = <<>> /\ lst'.total = 0
           \/ /\ lst'.code = 200
              /\ lst.findDone # lst.countDone
              /\ lst.findDone => lst'.data = lst.data
              /\ lst.findDone /\ Unfiltered => lst'.total = Cardinality(ListedLeads)
              /\ lst.countDone => lst'.total = lst.total
      /\ lst.pc # "query" => lst'.code # 200 \/ lst' = lst
    ]_vars

\* a 200 response whose total was counted after a create that the fetch
\* did not see
C23_Witness ==
  /\ lst.pc = "done" /\ lst.code = 200 /\ lst.limit = 100
  /\ Len(lst.data) = 1 /\ lst.total = 2

\* C27 as stated: a list response holds at most total records, and holds
\* records only if page <= totalPages.
C27_ConsistentCount ==
  (lst.pc = "done" /\ lst.code = 200) =>
    /\ Len(lst.data) <= lst.total
    /\ Len(lst.data) > 0 => lst.page <= lst.totalPages

(***************************************************************************)
(* The between operator and the order of the parameters                    *)
(***************************************************************************)
\* C25 as stated: score_between with exactly two values matches exactly the
\* owner's leads with v0 <= score <= v1; with any other value the predicate
\* matches what it matches without the key, all leads of the owner.
C25_BetweenInclusiveOrIgnored ==
  (compiled.done /\ Len(filters) = 1 /\ filters[1].key = <<"score", "between">>) =>
    LET val == filters[1].val
        two == val.arr /\ Len(val.items) = 2
    IN /\ ~compiled.thrown
       /\ \A strict \in BOOLEAN :
            /\ ~QueryCastError(compiled.q, strict)
            /\ \A l \in LeadUniverse :
                 Matches(l, compiled.q, strict) <=>
                   /\ l.user_id = owner
                   /\ two => /\ NumberOfString(val.items[1]).n <= l.score
                             /\ l.score <= NumberOfString(val.items[2]).n

\* C28 as stated: two parameters compile without a throw, and to the same
\* predicate as in the opposite order.
C28_OrderIndependent ==
  (compiled.done /\ Len(filters) = 2) =>
    /\ ~compiled.thrown
    /\ compiled.q = buildFilterQuery(<<filters[2], filters[1]>>, owner).q

(***************************************************************************)
(* A sweep over all pages, and the Dashboard                               *)
(***************************************************************************)
\* the leads of the user who sweeps
Swept == {l \in leads : l.user_id = "u1"}

\* the number of pages of n records at `limit` records a page
PagesOf(n, limit) == (n + limit - 1) \div limit

\* C29 as stated: with the store at rest, whatever the fetches of pages
\* 1..totalPages return at a fixed limit, every lead of the user is on
\* exactly one page, once.
C29_SweepCoversOnce ==
  \A limit \in SweepLimits :
    LET q == "user_id" :> [lit |-> Str("u1"), ops |-> <<>>]
        tp == PagesOf(Cardinality(Swept), limit)
    IN \A pages \in [1..tp -> UNION {Find(q, strictQuery, (pg - 1) * limit, limit) : pg \in 1..tp}] :
         (\A pg \in 1..tp : pages[pg] \in Find(q, strictQuery, (pg - 1) * limit, limit)) =>
           \A l \in Swept :
             Cardinality({pk \in (1..tp) \X (1..limit) :
                            pk[2] <= Len(pages[pk[1]]) /\ pages[pk[1]][pk[2]] = l}) = 1

\* the request issued last
Latest == dash.issued

\* loading is true while a request is in flight
LoadingWhileInFlight == dash.inflight # {} => dash.loading

\* with nothing in flight or pending, the response shown is that of the
\* request issued last, and its page, limit and filters are the current ones
ShownIsLatest ==
  (dash.inflight = {} /\ ~dash.effect /\ dash.issued > 0) =>
    /\ dash.shown.n = Latest
    /\ dash.shown.page = dash.page
    /\ dash.shown.limit = dash.limit
    /\ dash.shown.filters = dash.filters

\* C30 as stated: while a request is in flight loading is true, and once
\* all requests have completed (none of them failed) the Dashboard shows the
\* response of the request issued last, with its page, limit and filters.
C30_LatestShown ==
  ~dash.failed => (LoadingWhileInFlight /\ ShownIsLatest)

====
